---- MODULE Spec2Model ----
(***************************************************************************)
(* Model of the YouTube downloader: the stream catalog that               *)
(* YouTubeDownloader.fetch_streams builds from yt-dlp's raw format        *)
(* records, the selection of a stream for a resolution label, the two     *)
(* front ends that drive fetch / select / download, and the JSON cache.    *)
(*                                                                         *)
(* Python strings that the code inspects (resolution labels) are          *)
(* sequences of one-character strings; tokens the code only compares as a *)
(* whole (codec names, extensions) are TLA+ strings.  An Optional value   *)
(* is a set with at most one element: None is the empty set.               *)
(***************************************************************************)
EXTENDS Integers, Sequences, FiniteSets, TLC

VARIABLES
  \* YouTubeDownloader and its callers' locals
  formats,   \* info['formats'], the raw records of the video
  streams,   \* the catalog: List[StreamOption]
  target,    \* the label handed to select_stream_for_resolution
  chosen,    \* Optional[StreamOption] it returned
  pc,        \* position of the core call sequence
  origin,    \* "fetch": streams come from fetch_streams; "caller": hand-built
  \* one submission in a front end
  fe,        \* "web" (app.py) or "gui" (src/gui.py)
  fpc,       \* position in main() or in start_download/_download_worker
  url,       \* the URL field
  resVar,    \* the resolution widget's value, Optional
  dlType,    \* app.py's download type
  filePath,  \* what download() returned
  events,    \* calls made and messages shown so far, in order
  \* Cache
  cobj,      \* "none" before construction, "live" after
  disk,      \* the cache file
  data,      \* self._data
  raised,    \* the exception the last operation raised to its caller
  got,       \* the key of the last get and what it returned
  shadow,    \* per key, the value of the last set on this object, if any
  lastOp,    \* the last operation on the cache
  \* one call of download / download_audio_only
  dpc,        \* "idle", "clients" (inside _download_with_clients), "returned", "raised"
  entry,      \* the method called
  ydlFormat,  \* ydl_opts['format']
  clientSets, \* client_sets, the profiles to try
  attempts,   \* the attempts made so far, in order
  lastExc,    \* last_exc, Optional
  dlRaised,   \* the exception that left the call, Optional
  collector,  \* filename_collector
  dlResult,   \* what the call returned, Optional
  \* the desktop GUI with its worker threads
  url_var,    \* the URL entry
  res_var,    \* the resolution combobox
  threads     \* per Download click, the worker thread it started

coreVars == <<formats, streams, target, chosen, pc, origin>>
frontVars == <<fe, fpc, url, resVar, dlType, filePath, events>>
cacheVars == <<cobj, disk, data, raised, got, shadow, lastOp>>
dlVars == <<dpc, entry, ydlFormat, clientSets, attempts, lastExc, dlRaised, collector, dlResult>>
guiVars == <<url_var, res_var, threads>>
vars == <<coreVars, frontVars, cacheVars, dlVars, guiVars>>

----------------------------------------------------------------------------
(* Optional values and Python truthiness *)

None == {}
Some(v) == {v}
Val(o) == CHOOSE v \in o : TRUE

\* bool(x) for an Optional[str]: None and "" are falsy
TruthyStr(o) == o # None /\ Val(o) # <<>>
\* bool(x) for an Optional[int]: None and 0 are falsy
TruthyInt(o) == o # None /\ Val(o) # 0

Min(S) == CHOOSE x \in S : \A y \in S : x <= y
Max(S) == CHOOSE x \in S : \A y \in S : x >= y

----------------------------------------------------------------------------
(* Characters: str.lower(), \d, int(), and the f-string of an integer *)

UpperLetters == <<"A","B","C","D","E","F","G","H","I","J","K","L","M",
                  "N","O","P","Q","R","S","T","U","V","W","X","Y","Z">>
LowerLetters == <<"a","b","c","d","e","f","g","h","i","j","k","l","m",
                  "n","o","p","q","r","s","t","u","v","w","x","y","z">>
DigitChars == <<"0","1","2","3","4","5","6","7","8","9">>

LowerChar(c) ==
  IF \E i \in DOMAIN UpperLetters : UpperLetters[i] = c
  THEN LowerLetters[CHOOSE i \in DOMAIN UpperLetters : UpperLetters[i] = c]
  ELSE c

\* str.lower()
LowerStr(s) == [i \in DOMAIN s |-> LowerChar(s[i])]

IsDigit(c) == \E i \in DOMAIN DigitChars : DigitChars[i] = c
DigitVal(c) == (CHOOSE i \in DOMAIN DigitChars : DigitChars[i] = c) - 1

\* int() of a non-empty string of digits
RECURSIVE ParseInt(_)
ParseInt(s) ==
  IF Len(s) = 0 THEN 0
  ELSE 10 * ParseInt(SubSeq(s, 1, Len(s) - 1)) + DigitVal(s[Len(s)])

\* str() of a non-negative integer, as the f-string f"{height}p" formats it
RECURSIVE IntToStr(_)
IntToStr(n) ==
  IF n < 10 THEN <<DigitChars[n + 1]>>
  ELSE IntToStr(n \div 10) \o <<DigitChars[(n % 10) + 1]>>

\* re.search(r"(\d+)", s).group(1): the first maximal run of digits, <<>> if none
FirstDigitRun(s) ==
  LET digs == {i \in DOMAIN s : IsDigit(s[i])}
  IN IF digs = {} THEN <<>>
     ELSE LET a == Min(digs)
              b == Max({j \in a..Len(s) : \A k \in a..j : IsDigit(s[k])})
          IN SubSeq(s, a, b)

\* YouTubeDownloader._resolution_index
ResolutionIndex(res) ==
  IF ~TruthyStr(res) THEN 0
  ELSE LET run == FirstDigitRun(Val(res))
       IN IF run = <<>> THEN 0 ELSE ParseInt(run)

----------------------------------------------------------------------------
(* fetch_streams: filter, derive the resolution, de-duplicate, sort *)

\* mutant of Carries: "and" in place of "or"
CarriesBoth(f) == f.vcodec # Some("none") /\ f.acodec # Some("none")

\* the condition of the loop body: f.get('vcodec') != 'none' or f.get('acodec') != 'none'
Carries(f) == f.vcodec # Some("none") \/ f.acodec # Some("none")

\* res = f.get('resolution'); if not res and f.get('height'): res = f"{height}p"
DeriveRes(f) ==
  IF ~TruthyStr(f.resolution) /\ TruthyInt(f.height)
  THEN Some(IntToStr(Val(f.height)) \o <<"p">>)
  ELSE f.resolution

\* f.get('filesize') or f.get('filesize_approx')
DeriveSize(f) == IF TruthyInt(f.filesize) THEN f.filesize ELSE f.filesize_approx

\* the StreamOption(...) built from one raw record
ToOption(f) ==
  [itag |-> f.format_id, mime_type |-> f.ext, resolution |-> DeriveRes(f),
   fps |-> f.fps, abr |-> f.abr, filesize |-> DeriveSize(f)]

\* the options list after the first loop
RECURSIVE BuildOptions(_)
BuildOptions(fs) ==
  IF fs = <<>> THEN <<>>
  ELSE LET f == Head(fs)
       IN (IF Carries(f) THEN <<ToOption(f)>> ELSE <<>>) \o BuildOptions(Tail(fs))

\* mutant of Key: the byte size is part of the key
KeyWithSize(opt) == <<opt.resolution, opt.mime_type, opt.filesize>>

\* key = (opt.resolution, opt.mime_type)
Key(opt) == <<opt.resolution, opt.mime_type>>

\* position of key in the dict (insertion order), 0 when key not in unique_options
KeyIndex(unique, key) ==
  IF \E i \in DOMAIN unique : Key(unique[i]) = key
  THEN CHOOSE i \in DOMAIN unique : Key(unique[i]) = key
  ELSE 0

\* opt.filesize and (not old.filesize or opt.filesize > old.filesize)
Beats(opt, old) ==
  TruthyInt(opt.filesize)
    /\ (~TruthyInt(old.filesize) \/ Val(opt.filesize) > Val(old.filesize))

\* one iteration of the de-duplication loop; unique is the dict's values in
\* insertion order (an overwritten key keeps its position)
PutUnique(unique, opt) ==
  LET idx == KeyIndex(unique, Key(opt))
  IN IF idx = 0 THEN Append(unique, opt)
     ELSE IF Beats(opt, unique[idx]) THEN [unique EXCEPT ![idx] = opt]
     ELSE unique

RECURSIVE UniqueFrom(_, _)
UniqueFrom(options, unique) ==
  IF options = <<>> THEN unique
  ELSE UniqueFrom(Tail(options), PutUnique(unique, Head(options)))

\* list(unique_options.values())
UniqueOptions(options) == UniqueFrom(options, <<>>)

\* mutant of InsertDesc: o goes ahead of the entries of equal index, as an
\* ascending sort followed by reverse() would leave it
InsertDescBeforeEqual(sorted, o) ==
  LET k == ResolutionIndex(o.resolution)
      notHigher == {i \in DOMAIN sorted : ResolutionIndex(sorted[i].resolution) <= k}
      at == IF notHigher = {} THEN Len(sorted) + 1 ELSE Min(notHigher)
  IN SubSeq(sorted, 1, at - 1) \o <<o>> \o SubSeq(sorted, at, Len(sorted))

\* place o behind every entry whose index is >= its own: what a stable sort
\* with reverse=True does to an entry arriving after those already placed
InsertDesc(sorted, o) ==
  LET k == ResolutionIndex(o.resolution)
      lower == {i \in DOMAIN sorted : ResolutionIndex(sorted[i].resolution) < k}
      at == IF lower = {} THEN Len(sorted) + 1 ELSE Min(lower)
  IN SubSeq(sorted, 1, at - 1) \o <<o>> \o SubSeq(sorted, at, Len(sorted))

RECURSIVE SortFrom(_, _)
SortFrom(rest, sorted) ==
  IF rest = <<>> THEN sorted
  ELSE SortFrom(Tail(rest), InsertDesc(sorted, Head(rest)))

\* result.sort(key=lambda o: self._resolution_index(o.resolution), reverse=True)
SortByResolution(result) == SortFrom(result, <<>>)

\* YouTubeDownloader.fetch_streams, given info['formats']
FetchStreamsOf(fs) == SortByResolution(UniqueOptions(BuildOptions(fs)))

----------------------------------------------------------------------------
(* select_stream_for_resolution *)

\* s.resolution and s.resolution.lower() == t
Matches(s, t) == TruthyStr(s.resolution) /\ LowerStr(Val(s.resolution)) = t

\* mutant of SelectStreamForResolution: the last match is returned, not the first
SelectStreamLastMatch(ss, tgt) ==
  LET t == LowerStr(tgt)
      hits == {i \in DOMAIN ss : Matches(ss[i], t)}
  IN IF hits # {} THEN Some(ss[Max(hits)])
     ELSE IF ss # <<>> THEN Some(ss[1])
     ELSE None

\* mutant of SelectStreamForResolution: no fallback to the first entry
SelectStreamExactOnly(ss, tgt) ==
  LET t == LowerStr(tgt)
      hits == {i \in DOMAIN ss : Matches(ss[i], t)}
  IN IF hits # {} THEN Some(ss[Min(hits)]) ELSE None

\* YouTubeDownloader.select_stream_for_resolution
SelectStreamForResolution(ss, tgt) ==
  LET t == LowerStr(tgt)
      hits == {i \in DOMAIN ss : Matches(ss[i], t)}
  IN IF hits # {} THEN Some(ss[Min(hits)])
     ELSE IF ss # <<>> THEN Some(ss[1])
     ELSE None

----------------------------------------------------------------------------
(* Inputs: raw format records as yt-dlp reports them, labels, catalogs *)

MaxFormats == 3

L480p == <<"4","8","0","p">>
L720p == <<"7","2","0","p">>
L720P == <<"7","2","0","P">>
L1080p == <<"1","0","8","0","p">>
L600p == <<"6","0","0","p">>
L1800p == <<"1","8","0","0","p">>
L1280x720 == <<"1","2","8","0","x","7","2","0">>
LAudioOnly == <<"a","u","d","i","o"," ","o","n","l","y">>
LEmpty == <<>>

Raw(v, a, r, h, e, s, sa) ==
  [format_id |-> 0, ext |-> e, vcodec |-> v, acodec |-> a, resolution |-> r,
   height |-> h, fps |-> None, abr |-> None, filesize |-> s, filesize_approx |-> sa]

\* records that differ in the codec fields only (a missing field reads as None)
CodecRecords ==
  {Raw(c[1], c[2], None, Some(480), "mp4", None, None) :
     c \in {<<None, None>>, <<Some("none"), Some("none")>>, <<Some("avc1"), Some("none")>>,
            <<Some("none"), Some("mp4a")>>}}

\* records that differ in the declared resolution string and pixel height
ResolutionRecords ==
  {Raw(Some("avc1"), Some("none"), rh[1], rh[2], "mp4", None, None) :
     rh \in {<<None, None>>, <<Some(LEmpty), Some(1080)>>,
             <<Some(L1280x720), Some(720)>>, <<Some(LAudioOnly), Some(0)>>}}

\* records of one resolution that differ in container and byte size
SizeRecords ==
  {Raw(Some("avc1"), Some("none"), None, Some(720), "mp4", sz[1], sz[2]) :
     sz \in {<<None, None>>, <<Some(0), None>>, <<Some(2), None>>, <<Some(0), Some(3)>>}}
  \cup {Raw(Some("avc1"), Some("none"), None, Some(720), "webm", None, None)}

RawRecords == CodecRecords \cup ResolutionRecords \cup SizeRecords

\* up to MaxFormats records of S, format ids assigned by the platform
ListsOver(S) ==
  {[i \in DOMAIN sh |-> [sh[i] EXCEPT !.format_id = i]] :
     sh \in UNION {[1..n -> S] : n \in 0..MaxFormats}}

\* info['formats']
FormatLists == ListsOver(RawRecords)

Labels == {L720p, L720P, L600p, L1800p, LAudioOnly, LEmpty}

\* hand-built catalogs, in any order, as a caller such as the unit tests passes them
CallerResolutions == {None, Some(LEmpty), Some(L480p), Some(L720p), Some(L720P), Some(L1080p)}

CallerCatalogs ==
  UNION {{[i \in 1..n |->
            [itag |-> i, mime_type |-> "mp4", resolution |-> rs[i], fps |-> None,
             abr |-> None, filesize |-> None]] : rs \in [1..n -> CallerResolutions]} :
         n \in 0..MaxFormats}

----------------------------------------------------------------------------
(* The core as a state machine: fetch_streams, then select_stream_for_resolution *)

\* no front end is running
FrontIdle ==
  /\ fe = "none" /\ fpc = "idle" /\ url = "" /\ resVar = None
  /\ dlType = "Video" /\ filePath = "" /\ events = <<>>

\* cache keys, and the values stored: a JSON string, and an object json.dump
\* cannot serialise
Keys == {"k1", "k2"}
JsonValues == {"v"}
Values == JsonValues \cup {"object"}

EmptyMap == [k \in {} |-> "v"]
MapsTo(V) == UNION {[S -> V] : S \in SUBSET Keys}

\* a Python value held in self._data or encoded in the file
Dict(m) == [kind |-> "dict", map |-> m]
Other(k) == [kind |-> k, map |-> EmptyMap]

\* the cache file: missing, not JSON, or a JSON document (an object, or
\* another JSON value such as a list or null)
DiskStates ==
  {Other("absent"), Other("corrupt"), Other("list"), Other("null")}
    \cup {Dict(m) : m \in MapsTo(JsonValues)}

NoGet == [key |-> "", val |-> None]
NoShadow == [k \in Keys |-> None]

\* no Cache object exists
CacheIdle ==
  /\ cobj = "none" /\ disk = Other("absent") /\ data = Dict(EmptyMap)
  /\ raised = "none" /\ got = NoGet /\ shadow = NoShadow /\ lastOp = "none"

\* no download call is running
DownloadIdle ==
  /\ dpc = "idle" /\ entry = "none" /\ ydlFormat = "" /\ clientSets = <<>>
  /\ attempts = <<>> /\ lastExc = None /\ dlRaised = None
  /\ collector = <<>> /\ dlResult = None

\* the desktop window is not open
GuiIdle ==
  /\ url_var = "" /\ res_var = <<>> /\ threads = <<>>

InitCore ==
  /\ target = LEmpty
  /\ chosen = None
  /\ \/ /\ origin = "fetch"
        /\ pc = "start"
        /\ formats \in FormatLists
        /\ streams = <<>>
     \/ /\ origin = "caller"
        /\ pc = "catalog"
        /\ formats = <<>>
        /\ streams \in CallerCatalogs
  /\ FrontIdle
  /\ CacheIdle
  /\ DownloadIdle
  /\ GuiIdle

\* downloader.fetch_streams()
FetchStreams ==
  /\ pc = "start"
  /\ streams' = FetchStreamsOf(formats)
  /\ pc' = "catalog"
  /\ UNCHANGED <<formats, target, chosen, origin, frontVars, cacheVars, dlVars, guiVars>>

\* downloader.select_stream_for_resolution(streams, target)
SelectStream ==
  /\ pc = "catalog"
  /\ \E t \in Labels :
       /\ target' = t
       /\ chosen' = SelectStreamForResolution(streams, t)
  /\ pc' = "selected"
  /\ UNCHANGED <<formats, streams, origin, frontVars, cacheVars, dlVars, guiVars>>

NextCore == FetchStreams \/ SelectStream

Spec == InitCore /\ [][NextCore]_vars

----------------------------------------------------------------------------
(* The front ends: one submission in app.py's main() or in the Tk GUI.  The  *)
(* collaborators (yt-dlp's extraction and download, pytubefix, the file      *)
(* system) either return or raise; events records, in order, the calls made  *)
(* and the messages shown.                                                  *)

L8K == <<"8","K">>
L4K == <<"4","K">>
L2K == <<"2","K">>

\* the values of the GUI's read-only resolution combobox
GuiResolutions == {L8K, L4K, L2K, L1080p, L720p}

\* the URL field: empty, blank, or a URL
Urls == {"", " ", "https://youtu.be/v"}

\* str.strip() on the URL field
Strip(u) == IF u = " " THEN "" ELSE u

\* what download() returns: filename_collector[0] if filename_collector else ""
FilePaths == {"", "downloads/title.mp4"}

\* the raw records a video offers in the front-end runs
FrontRecords ==
  {Raw(Some("none"), Some("none"), None, Some(480), "mp4", None, None),
   Raw(Some("avc1"), Some("none"), Some(LEmpty), Some(1080), "mp4", None, None),
   Raw(Some("avc1"), Some("none"), None, Some(720), "mp4", None, None),
   Raw(Some("avc1"), Some("none"), None, None, "mp4", None, None)}

FrontFormatLists == ListsOver(FrontRecords)

\* app.py get_available_resolutions: the options of the resolution selectbox
AvailableResolutions(ss) ==
  {Val(ss[i].resolution) : i \in {j \in DOMAIN ss : TruthyStr(ss[j].resolution)}}

Shown(es) == events' = events \o es

InitFront ==
  /\ fe \in {"web", "gui"}
  /\ fpc = "start"
  /\ url \in Urls
  /\ resVar \in (IF fe = "gui" THEN {Some(r) : r \in GuiResolutions} ELSE {None})
  /\ dlType = "Video" /\ filePath = "" /\ events = <<>>
  /\ formats = <<>> /\ streams = <<>> /\ target = LEmpty /\ chosen = None
  /\ pc = "front" /\ origin = "fetch"
  /\ CacheIdle
  /\ DownloadIdle
  /\ GuiIdle

\* app.py main(): if url: downloader = YouTubeDownloader(url); fetch_streams();
\* "No streams available" on an empty catalog; the outer except shows the error
WebFetch ==
  /\ fe = "web" /\ fpc = "start"
  /\ IF url = ""
     THEN fpc' = "done" /\ UNCHANGED <<formats, streams, events>>
     ELSE \/ /\ Shown(<<"fetch", "fetch_failed", "error">>)
             /\ fpc' = "done"
             /\ UNCHANGED <<formats, streams>>
          \/ \E fl \in FrontFormatLists :
               /\ formats' = fl
               /\ streams' = FetchStreamsOf(fl)
               /\ IF streams' = <<>>
                  THEN Shown(<<"fetch", "fetched", "no_streams", "error">>) /\ fpc' = "done"
                  ELSE Shown(<<"fetch", "fetched">>) /\ fpc' = "info"
  /\ UNCHANGED <<target, chosen, pc, origin, fe, url, resVar, dlType, filePath, cacheVars, dlVars, guiVars>>

\* yt = YouTube(url) and the thumbnail, title, author, length, views it reads
WebVideoInfo ==
  /\ fe = "web" /\ fpc = "info"
  /\ \/ Shown(<<"info_failed", "error">>) /\ fpc' = "done"
     \/ UNCHANGED events /\ fpc' = "widgets"
  /\ UNCHANGED <<coreVars, fe, url, resVar, dlType, filePath, cacheVars, dlVars, guiVars>>

\* the resolution selectbox (None when it has no options), the download type
\* and the "Prepare Download" button
WebWidgets ==
  /\ fe = "web" /\ fpc = "widgets"
  /\ resVar' \in (IF AvailableResolutions(streams) = {} THEN {None}
                  ELSE {Some(r) : r \in AvailableResolutions(streams)})
  /\ dlType' \in {"Video", "Audio Only"}
  /\ \E pressed \in BOOLEAN : fpc' = IF pressed THEN "select" ELSE "done"
  /\ UNCHANGED <<coreVars, fe, url, filePath, events, cacheVars, dlVars, guiVars>>

\* chosen_stream = select_stream_for_resolution(streams, resolution); None.lower()
\* raises into the inner except; "No suitable stream found" when nothing is chosen
WebSelect ==
  /\ fe = "web" /\ fpc = "select"
  /\ IF resVar = None
     THEN /\ Shown(<<"select", "select_failed", "error">>)
          /\ fpc' = "done"
          /\ UNCHANGED <<target, chosen>>
     ELSE /\ target' = Val(resVar)
          /\ chosen' = SelectStreamForResolution(streams, Val(resVar))
          /\ IF chosen' = None
             THEN Shown(<<"select", "no_stream", "error">>) /\ fpc' = "done"
             ELSE Shown(<<"select", "selected">>) /\ fpc' = "download"
  /\ UNCHANGED <<formats, streams, pc, origin, fe, url, resVar, dlType, filePath, cacheVars, dlVars, guiVars>>

\* os.makedirs(temp_dir); downloader.download(...) or download_audio_only(...)
WebDownload ==
  /\ fe = "web" /\ fpc = "download"
  /\ \/ Shown(<<"prepare_failed", "error">>) /\ fpc' = "done" /\ UNCHANGED filePath
     \/ Shown(<<"download", "download_failed", "error">>) /\ fpc' = "done" /\ UNCHANGED filePath
     \/ \E p \in FilePaths :
          filePath' = p /\ Shown(<<"download", "downloaded">>) /\ fpc' = "deliver"
  /\ UNCHANGED <<coreVars, fe, url, resVar, dlType, cacheVars, dlVars, guiVars>>

\* open(file_path, "rb") and st.download_button(...); os.remove errors are ignored
WebDeliver ==
  /\ fe = "web" /\ fpc = "deliver"
  /\ \/ Shown(<<"open_failed", "error">>)
     \/ filePath # "" /\ Shown(<<"deliver">>)
  /\ fpc' = "done"
  /\ UNCHANGED <<coreVars, fe, url, resVar, dlType, filePath, cacheVars, dlVars, guiVars>>

\* YouTubeDownloaderGUI.start_download: a blank URL gets a warning, any other
\* starts the worker thread
GuiStartDownload ==
  /\ fe = "gui" /\ fpc = "start"
  /\ IF Strip(url) = ""
     THEN Shown(<<"warning">>) /\ fpc' = "done"
     ELSE UNCHANGED events /\ fpc' = "worker"
  /\ UNCHANGED <<coreVars, fe, url, resVar, dlType, filePath, cacheVars, dlVars, guiVars>>

\* _download_worker: downloader = _make_downloader(url); streams = fetch_streams()
GuiWorkerFetch ==
  /\ fe = "gui" /\ fpc = "worker"
  /\ \/ /\ Shown(<<"fetch", "fetch_failed", "error">>)
        /\ fpc' = "done"
        /\ UNCHANGED <<formats, streams>>
     \/ \E fl \in FrontFormatLists :
          /\ formats' = fl
          /\ streams' = FetchStreamsOf(fl)
          /\ Shown(<<"fetch", "fetched">>)
          /\ fpc' = "select"
  /\ UNCHANGED <<target, chosen, pc, origin, fe, url, resVar, dlType, filePath, cacheVars, dlVars, guiVars>>

\* mutant of GuiWorkerSelect: the "if chosen is None: raise" check is missing
GuiWorkerSelectUnchecked ==
  /\ fe = "gui" /\ fpc = "select"
  /\ target' = Val(resVar)
  /\ chosen' = SelectStreamForResolution(streams, Val(resVar))
  /\ Shown(<<"select", "selected">>) /\ fpc' = "download"
  /\ UNCHANGED <<formats, streams, pc, origin, fe, url, resVar, dlType, filePath, cacheVars, dlVars, guiVars>>

\* target_res = self.res_var.get(); chosen = select_stream_for_resolution(...);
\* RuntimeError("No suitable stream found ...") when chosen is None
GuiWorkerSelect ==
  /\ fe = "gui" /\ fpc = "select"
  /\ target' = Val(resVar)
  /\ chosen' = SelectStreamForResolution(streams, Val(resVar))
  /\ IF chosen' = None
     THEN Shown(<<"select", "no_stream", "error">>) /\ fpc' = "done"
     ELSE Shown(<<"select", "selected">>) /\ fpc' = "download"
  /\ UNCHANGED <<formats, streams, pc, origin, fe, url, resVar, dlType, filePath, cacheVars, dlVars, guiVars>>

\* os.makedirs(out_dir); file_path = downloader.download(chosen.itag, ...);
\* status "Download complete: <file_path>"; the except shows "Download failed"
GuiWorkerDownload ==
  /\ fe = "gui" /\ fpc = "download"
  /\ \/ Shown(<<"prepare_failed", "error">>) /\ UNCHANGED filePath
     \/ Shown(<<"download", "download_failed", "error">>) /\ UNCHANGED filePath
     \/ \E p \in FilePaths :
          filePath' = p /\ Shown(<<"download", "downloaded", "deliver">>)
  /\ fpc' = "done"
  /\ UNCHANGED <<coreVars, fe, url, resVar, dlType, cacheVars, dlVars, guiVars>>

NextFront ==
  \/ WebFetch \/ WebVideoInfo \/ WebWidgets \/ WebSelect \/ WebDownload \/ WebDeliver
  \/ GuiStartDownload \/ GuiWorkerFetch \/ GuiWorkerSelect \/ GuiWorkerDownload

SpecFront == InitFront /\ [][NextFront]_vars

----------------------------------------------------------------------------
(* The JSON file cache.  Every file-system call may fail; an exception that *)
(* leaves an operation is recorded in raised.                                *)

CoreIdle ==
  /\ formats = <<>> /\ streams = <<>> /\ target = LEmpty /\ chosen = None
  /\ pc = "idle" /\ origin = "fetch"

InitCache ==
  /\ cobj = "none" /\ disk \in DiskStates /\ data = Dict(EmptyMap)
  /\ raised = "none" /\ got = NoGet /\ shadow = NoShadow /\ lastOp = "none"
  /\ CoreIdle
  /\ FrontIdle
  /\ DownloadIdle
  /\ GuiIdle

\* json.load(f): the document in the file, as a Python value
Parsed(d) == IF d.kind = "dict" THEN Dict(d.map) ELSE Other(d.kind)

\* json.dump succeeds when every value can be serialised
Serialisable(m) == \A k \in DOMAIN m : m[k] \in JsonValues

\* Cache.__init__: _ensure_dir() (os.makedirs, outside any try), then _load():
\* a missing file gives {}, a failed open or parse gives {}, otherwise
\* self._data is whatever json.load returned
Construct ==
  /\ got' = NoGet /\ shadow' = NoShadow /\ disk' = disk
  /\ \/ /\ raised' = "OSError"
        /\ cobj' = "none" /\ data' = Dict(EmptyMap) /\ lastOp' = "construct"
     \/ /\ raised' = "none" /\ cobj' = "live"
        /\ IF disk.kind = "absent"
           THEN data' = Dict(EmptyMap) /\ lastOp' = "construct"
           ELSE \/ data' = Dict(EmptyMap) /\ lastOp' = "load_failed"
                \/ /\ disk.kind # "corrupt"
                   /\ data' = Parsed(disk)
                   /\ lastOp' = "construct"
  /\ UNCHANGED <<coreVars, frontVars, dlVars, guiVars>>

\* Cache.get: self._data.get(key, default); a list or None has no .get
Get ==
  /\ cobj = "live"
  /\ \E k \in Keys :
       IF data.kind = "dict"
       THEN /\ got' = [key |-> k,
                       val |-> IF k \in DOMAIN data.map THEN Some(data.map[k]) ELSE None]
            /\ raised' = "none"
       ELSE /\ got' = [key |-> k, val |-> None]
            /\ raised' = "AttributeError"
  /\ lastOp' = "get"
  /\ UNCHANGED <<cobj, disk, data, shadow, coreVars, frontVars, dlVars, guiVars>>

\* m with key k bound to v
Bind(m, k, v) == [x \in DOMAIN m \cup {k} |-> IF x = k THEN v ELSE m[x]]

\* Cache.set: self._data[key] = value (a TypeError on a list or None), then
\* _save(): open(path, "w") and json.dump inside try/except Exception: pass.
\* A failed open leaves the file as it was; a failed or refused dump leaves a
\* truncated file.
Set ==
  /\ cobj = "live"
  /\ \E k \in Keys, v \in Values :
       IF data.kind = "dict"
       THEN /\ data' = Dict(Bind(data.map, k, v))
            /\ shadow' = [shadow EXCEPT ![k] = Some(v)]
            /\ raised' = "none"
            /\ \/ disk' = disk
               \/ disk' = Other("corrupt")
               \/ Serialisable(data'.map) /\ disk' = Dict(data'.map)
       ELSE /\ raised' = "TypeError"
            /\ UNCHANGED <<data, shadow, disk>>
  /\ lastOp' = "set"
  /\ UNCHANGED <<cobj, got, coreVars, frontVars, dlVars, guiVars>>

NextCache == Construct \/ Get \/ Set

SpecCache == InitCache /\ [][NextCache]_vars

----------------------------------------------------------------------------
(* download / download_audio_only and the retry over client profiles.  An   *)
(* error message is the sequence of its words.                               *)

\* Python's `needle in hay`: needle occurs in hay as a contiguous run
Contains(needle, hay) ==
  \E i \in 0..(Len(hay) - Len(needle)) :
     \A j \in 1..Len(needle) : hay[i + j] = needle[j]

Http403 == <<"HTTP", "Error", "403">>

\* str(exc) of the DownloadErrors yt-dlp raises
Messages == {
  <<"HTTP", "Error", "403", ":", "Forbidden">>,
  <<"ERROR", ":", "unable", "to", "download", "HTTP", "Error", "403">>,
  <<"HTTP", "Error", "404", ":", "Not", "Found">>,
  <<"Error", "403">>,
  <<"Video", "unavailable">>,
  <<>>}

\* how `with yt_dlp.YoutubeDL(attempt_opts) as ydl: ydl.download([self.url])`
\* ends: normally, with a DownloadError, or with any other exception
Outcomes ==
  {[kind |-> "ok", msg |-> <<>>], [kind |-> "Exception", msg |-> <<>>]}
    \cup {[kind |-> "DownloadError", msg |-> m] : m \in Messages}

\* what logger_hook appends to filename_collector during one attempt
Finished == {<<>>, <<"video.mp4">>, <<"video.f137.mp4", "video.mp4">>}

\* format ids a caller passes as itag
FormatIds == {"18", "137"}

\* [['web'], ['android']]
DefaultClientSets == <<<<"web">>, <<"android">>>>

\* YouTubeDownloader.download up to its call of _download_with_clients
Download ==
  /\ dpc = "idle"
  /\ \E itag \in FormatIds : ydlFormat' = itag \o "+bestaudio/best"
  /\ entry' = "download"
  /\ clientSets' = DefaultClientSets
  /\ dpc' = "clients"
  /\ UNCHANGED <<attempts, lastExc, dlRaised, collector, dlResult>>
  /\ UNCHANGED <<coreVars, frontVars, cacheVars, guiVars>>

\* YouTubeDownloader.download_audio_only up to its call of _download_with_clients
DownloadAudioOnly ==
  /\ dpc = "idle"
  /\ ydlFormat' = "bestaudio/best"
  /\ entry' = "download_audio_only"
  /\ clientSets' = DefaultClientSets
  /\ dpc' = "clients"
  /\ UNCHANGED <<attempts, lastExc, dlRaised, collector, dlResult>>
  /\ UNCHANGED <<coreVars, frontVars, cacheVars, guiVars>>

\* mutant of MovesOn: the `raise` for other DownloadErrors is missing
MovesOnAny(exc) == TRUE

\* not ("HTTP Error 403" not in str(exc)): the loop goes on to the next profile
MovesOn(exc) == Contains(Http403, exc.msg)

\* one pass of the loop of _download_with_clients, with what follows it: a
\* normal end returns, and the caller returns filename_collector[0] or "";
\* a DownloadError is kept in last_exc and re-raised unless it is a 403; after
\* the last profile the loop ends and last_exc is raised
TryClient ==
  /\ dpc = "clients"
  /\ LET i == Len(attempts) + 1 IN
     \E o \in Outcomes, fin \in Finished :
       /\ attempts' = Append(attempts, [player_client |-> clientSets[i], outcome |-> o])
       /\ collector' = collector \o fin
       /\ CASE o.kind = "ok" ->
                 /\ dpc' = "returned"
                 /\ dlResult' = Some(IF collector' # <<>> THEN collector'[1] ELSE "")
                 /\ UNCHANGED <<lastExc, dlRaised>>
            [] o.kind = "DownloadError" ->
                 /\ lastExc' = Some(o)
                 /\ IF ~MovesOn(o)
                    THEN dpc' = "raised" /\ dlRaised' = Some(o)
                    ELSE IF i = Len(clientSets)
                         THEN dpc' = "raised" /\ dlRaised' = lastExc'
                         ELSE dpc' = "clients" /\ UNCHANGED dlRaised
                 /\ UNCHANGED dlResult
            [] OTHER ->
                 /\ dpc' = "raised"
                 /\ dlRaised' = Some(o)
                 /\ UNCHANGED <<lastExc, dlResult>>
  /\ UNCHANGED <<entry, ydlFormat, clientSets>>
  /\ UNCHANGED <<coreVars, frontVars, cacheVars, guiVars>>

InitDownload ==
  /\ DownloadIdle
  /\ CoreIdle
  /\ FrontIdle
  /\ CacheIdle
  /\ GuiIdle

NextDownload == Download \/ DownloadAudioOnly \/ TryClient

SpecDownload == InitDownload /\ [][NextDownload]_vars

----------------------------------------------------------------------------
(* The desktop GUI with its worker threads.  The Tk main loop runs the      *)
(* button handler and the user's edits of the two fields; every Download    *)
(* click with a non-blank URL starts a daemon thread that runs              *)
(* _download_worker, and the threads' steps interleave with the main loop   *)
(* and with each other.                                                      *)

\* Download clicks in one run
MaxClicks == 2

UrlA == "https://youtu.be/a"
UrlB == "https://youtu.be/b"

\* what the user can type into the URL entry
GuiUrls == {"", " ", UrlA, UrlB}

\* info['formats'] of the video behind a URL: one video offers 1080p and 720p,
\* the other nothing that carries media
VideoFormats(u) ==
  IF u = UrlA
  THEN <<[Raw(Some("avc1"), Some("none"), Some(LEmpty), Some(1080), "mp4", None, None)
            EXCEPT !.format_id = 137],
         [Raw(Some("avc1"), Some("none"), None, Some(720), "mp4", None, None)
            EXCEPT !.format_id = 136]>>
  ELSE <<[Raw(Some("none"), Some("none"), None, Some(480), "mp4", None, None)
            EXCEPT !.format_id = 1]>>

\* a thread's record: the url it was started with, the resolution field at the
\* moment of the click, its position and its locals
Thread(u, r, st) ==
  [url |-> u, clickRes |-> r, at |-> st, streams |-> <<>>, target |-> LEmpty,
   chosen |-> None]

\* _build_ui: an empty URL entry, the combobox on "1080p"
InitGui ==
  /\ url_var = "" /\ res_var = L1080p /\ threads = <<>>
  /\ CoreIdle
  /\ FrontIdle
  /\ CacheIdle
  /\ DownloadIdle

\* the user edits the URL entry
EditUrl ==
  /\ \E u \in GuiUrls \ {url_var} : url_var' = u
  /\ UNCHANGED <<res_var, threads>>
  /\ UNCHANGED <<coreVars, frontVars, cacheVars, dlVars>>

\* the user picks another value in the resolution combobox
EditResolution ==
  /\ \E r \in GuiResolutions \ {res_var} : res_var' = r
  /\ UNCHANGED <<url_var, threads>>
  /\ UNCHANGED <<coreVars, frontVars, cacheVars, dlVars>>

\* start_download: url = self.url_var.get().strip(); a warning when it is
\* blank, otherwise Thread(target=self._download_worker, args=(url,)).start()
StartDownload ==
  /\ Len(threads) < MaxClicks
  /\ threads' = Append(threads,
       IF Strip(url_var) = ""
       THEN Thread(Strip(url_var), res_var, "warned")
       ELSE Thread(Strip(url_var), res_var, "fetch"))
  /\ UNCHANGED <<url_var, res_var>>
  /\ UNCHANGED <<coreVars, frontVars, cacheVars, dlVars>>

\* _download_worker: downloader = _make_downloader(url, ...);
\* streams = downloader.fetch_streams(); an exception goes to _show_error
WorkerFetch ==
  /\ \E w \in DOMAIN threads :
       /\ threads[w].at = "fetch"
       /\ \/ threads' = [threads EXCEPT ![w].at = "failed"]
          \/ threads' = [threads EXCEPT
                           ![w].streams = FetchStreamsOf(VideoFormats(threads[w].url)),
                           ![w].at = "select"]
  /\ UNCHANGED <<url_var, res_var>>
  /\ UNCHANGED <<coreVars, frontVars, cacheVars, dlVars>>

\* target_res = self.res_var.get();
\* chosen = downloader.select_stream_for_resolution(streams, target_res);
\* RuntimeError when chosen is None
WorkerSelect ==
  /\ \E w \in DOMAIN threads :
       /\ threads[w].at = "select"
       /\ LET c == SelectStreamForResolution(threads[w].streams, res_var) IN
            threads' = [threads EXCEPT ![w].target = res_var,
                                       ![w].chosen = c,
                                       ![w].at = IF c = None THEN "failed" ELSE "download"]
  /\ UNCHANGED <<url_var, res_var>>
  /\ UNCHANGED <<coreVars, frontVars, cacheVars, dlVars>>

\* os.makedirs(out_dir); downloader.download(chosen.itag, ...); "Download
\* complete", or _show_error on an exception
WorkerDownload ==
  /\ \E w \in DOMAIN threads :
       /\ threads[w].at = "download"
       /\ \E st \in {"done", "failed"} : threads' = [threads EXCEPT ![w].at = st]
  /\ UNCHANGED <<url_var, res_var>>
  /\ UNCHANGED <<coreVars, frontVars, cacheVars, dlVars>>

NextGui ==
  \/ EditUrl \/ EditResolution \/ StartDownload
  \/ WorkerFetch \/ WorkerSelect \/ WorkerDownload

SpecGui == InitGui /\ [][NextGui]_vars

----------------------------------------------------------------------------
(* Properties of select_stream_for_resolution *)

Selected == pc = "selected"
Fetched == origin = "fetch" /\ pc # "start"

\* entries whose resolution is present and, lowercased, equals the lowercased target
ExactHits ==
  {i \in DOMAIN streams :
     streams[i].resolution # None
       /\ LowerStr(Val(streams[i].resolution)) = LowerStr(target)}

\* the same, for resolutions that are non-empty strings
NonEmptyExactHits == {i \in ExactHits : Val(streams[i].resolution) # <<>>}

\* C1 as stated: whenever some entry's resolution, lowercased, equals the
\* lowercased target, the entry returned is the first such entry of the catalog.
C1_FirstExactMatch ==
  (Selected /\ ExactHits # {}) => chosen = Some(streams[Min(ExactHits)])

\* C1, amended: whenever some entry has a non-empty resolution that, lowercased,
\* equals the lowercased target, the entry returned is the first such entry in
\* catalog order, and its resolution equals the target up to case.
C1_FirstNonEmptyExactMatch ==
  (Selected /\ NonEmptyExactHits # {}) =>
     /\ chosen = Some(streams[Min(NonEmptyExactHits)])
     /\ LowerStr(Val(Val(chosen).resolution)) = LowerStr(target)

\* an unsorted catalog whose first match is not its first entry, with a later
\* match that differs in case
C1_Witness ==
  /\ Selected /\ origin = "caller"
  /\ Cardinality(NonEmptyExactHits) >= 2
  /\ Min(NonEmptyExactHits) > 1
  /\ \E i \in NonEmptyExactHits : streams[i].resolution # streams[Min(NonEmptyExactHits)].resolution
  /\ ResolutionIndex(streams[1].resolution) < ResolutionIndex(streams[2].resolution)

\* numeric value of the target label: first run of digits, 0 if none
TargetValue == ResolutionIndex(Some(target))

\* entries with a known resolution whose numeric resolution meets the target
AtLeastTarget ==
  {i \in DOMAIN streams :
     TruthyStr(streams[i].resolution)
       /\ ResolutionIndex(streams[i].resolution) >= TargetValue}

\* C2: with no exact match and some known resolution >= the target, the entry
\* returned is one of lowest numeric resolution among those meeting the target.
C2_ClosestAbove ==
  (Selected /\ ExactHits = {} /\ AtLeastTarget # {}) =>
     \E i \in AtLeastTarget :
        /\ chosen = Some(streams[i])
        /\ \A j \in AtLeastTarget :
              ResolutionIndex(streams[i].resolution) <= ResolutionIndex(streams[j].resolution)

\* C3: None is returned exactly for the empty catalog; with no exact match and
\* no entry meeting the target the first entry is returned, which after
\* fetch_streams has the highest numeric resolution of the catalog.
C3_NoneIffEmpty ==
  Selected =>
     /\ (chosen = None) <=> (streams = <<>>)
     /\ (streams # <<>> /\ ExactHits = {} /\ AtLeastTarget = {}) =>
           /\ chosen = Some(streams[1])
           /\ origin = "fetch" =>
                \A i \in DOMAIN streams :
                   ResolutionIndex(streams[1].resolution) >= ResolutionIndex(streams[i].resolution)

\* a fetched catalog of several resolutions, none matching or meeting the target
C3_Witness ==
  /\ Selected /\ origin = "fetch" /\ target = L1800p
  /\ Len(streams) >= 2 /\ ExactHits = {} /\ AtLeastTarget = {}
  /\ ResolutionIndex(streams[1].resolution) > ResolutionIndex(streams[2].resolution)
  /\ chosen = Some(streams[1])

----------------------------------------------------------------------------
(* Properties of fetch_streams *)

\* the (resolution, container) pair of a catalog entry
PairOf(s) == <<s.resolution, s.mime_type>>

\* C4: a fetched catalog holds no two entries with the same (resolution,
\* container) pair, an absent resolution counting as a value; an empty list of
\* raw records gives an empty catalog.
C4_UniquePairs ==
  Fetched =>
     /\ \A i, j \in DOMAIN streams : i # j => PairOf(streams[i]) # PairOf(streams[j])
     /\ formats = <<>> => streams = <<>>

\* two kept raw records collided on a pair whose resolution is absent, beside
\* an entry of another pair
C4_Witness ==
  /\ Fetched /\ Len(formats) = 3 /\ Len(streams) = 2
  /\ \A i \in DOMAIN formats : Carries(formats[i])
  /\ \E i, j \in DOMAIN formats :
        /\ i # j
        /\ formats[i].resolution = None /\ formats[i].height = None
        /\ formats[j].resolution = None /\ formats[j].height = None

\* the first run of digits of a label, read independently of the sort key:
\* the value of s[a..b], where a is the leftmost digit and b ends its block
NumericResolution(res) ==
  IF res = None THEN 0
  ELSE LET s == Val(res)
           starts == {a \in DOMAIN s : IsDigit(s[a]) /\ \A k \in 1..(a - 1) : ~IsDigit(s[k])}
       IN IF starts = {} THEN 0
          ELSE LET a == CHOOSE x \in starts : TRUE
                   b == CHOOSE y \in a..Len(s) :
                          /\ \A k \in a..y : IsDigit(s[k])
                          /\ (y < Len(s) => ~IsDigit(s[y + 1]))
               IN ParseInt(SubSeq(s, a, b))

\* the catalog before the sort: list(unique_options.values())
BeforeSort == UniqueOptions(BuildOptions(formats))

\* C5: a fetched catalog is non-increasing in numeric resolution (first run of
\* digits, 0 when absent or without digits), holds the entries it held before
\* the sort, and entries of equal numeric resolution keep their earlier order.
C5_SortedStable ==
  Fetched =>
     LET before == BeforeSort
         num == [i \in DOMAIN streams |-> NumericResolution(streams[i].resolution)]
         was == [i \in DOMAIN streams |->
                   {k \in DOMAIN before : before[k] = streams[i]}]
     IN /\ Len(streams) = Len(before)
        /\ \A i \in DOMAIN streams : was[i] # {}
        /\ \A i, j \in DOMAIN streams :
             i < j =>
               /\ num[i] >= num[j]
               /\ num[i] = num[j] => \A a \in was[i], b \in was[j] : a < b

\* the sort moved an entry ahead of two entries of equal numeric resolution 0,
\* one with no resolution and one whose label has no digits
C5_Witness ==
  /\ Fetched /\ Len(streams) = 3
  /\ streams[1] = BeforeSort[3]
  /\ NumericResolution(streams[1].resolution) > 0
  /\ \E i, j \in 2..3 :
        /\ streams[i].resolution = None
        /\ streams[j].resolution = Some(LAudioOnly)

\* the raw records that fetch_streams turns into an entry of the pair of s
Colliding(s) ==
  {i \in DOMAIN formats :
     /\ formats[i].vcodec # Some("none") \/ formats[i].acodec # Some("none")
     /\ formats[i].ext = s.mime_type
     /\ s.resolution =
          (IF formats[i].resolution # None /\ formats[i].resolution # Some(LEmpty)
           THEN formats[i].resolution
           ELSE IF formats[i].height # None /\ formats[i].height # Some(0)
           THEN Some(IntToStr(Val(formats[i].height)) \o <<"p">>)
           ELSE formats[i].resolution)}

\* the byte size a raw record declares: filesize, else filesize_approx
DeclaredSize(f) == IF f.filesize # None THEN f.filesize ELSE f.filesize_approx

\* C6: the entry retained for a pair comes from the colliding record of largest
\* declared size, and from a record of known size whenever one collides,
\* whatever the order of arrival and the size values, 0 included.
C6_LargestSizeWins ==
  Fetched =>
     \A k \in DOMAIN streams :
        LET group == Colliding(streams[k])
            kept == formats[streams[k].itag]
        IN /\ streams[k].itag \in group
           /\ \A i \in group :
                DeclaredSize(formats[i]) # None =>
                   /\ DeclaredSize(kept) # None
                   /\ Val(DeclaredSize(kept)) >= Val(DeclaredSize(formats[i]))

\* <digits>p
IsHeightLabel(s) ==
  /\ Len(s) >= 2
  /\ s[Len(s)] = "p"
  /\ \A k \in 1..(Len(s) - 1) : IsDigit(s[k])

\* C7: every entry's resolution is absent (None, or the empty string the code
\* treats alike) or of the form <integer>p, whatever resolution string or pixel
\* height the raw record declared.
C7_ResolutionForm ==
  Fetched =>
     \A k \in DOMAIN streams :
        \/ streams[k].resolution = None
        \/ streams[k].resolution = Some(LEmpty)
        \/ IsHeightLabel(Val(streams[k].resolution))

\* a record carries video (audio) when it declares a video (audio) codec other
\* than "none"
CarriesMedia(f) ==
  \/ f.vcodec # None /\ f.vcodec # Some("none")
  \/ f.acodec # None /\ f.acodec # Some("none")

Itags == {streams[k].itag : k \in DOMAIN streams}

\* C8 as stated: a record that carries neither video nor audio, one declaring no
\* codec field included, is absent from the catalog, and the pair of every
\* record that carries video or audio is represented.
C8_KeptIffCarriesMedia ==
  Fetched =>
     \A i \in DOMAIN formats :
        IF CarriesMedia(formats[i])
        THEN \E k \in DOMAIN streams : i \in Colliding(streams[k])
        ELSE formats[i].format_id \notin Itags

\* C8, amended: a record is dropped exactly when its vcodec and its acodec are
\* both declared as "none" (a missing codec field does not count as "none"):
\* such a record is never an entry, every entry comes from a record that is not
\* dropped, and the pair of every record not dropped is represented.
C8_KeptUnlessBothNone ==
  Fetched =>
     LET group == [k \in DOMAIN streams |-> Colliding(streams[k])]
     IN /\ \A i \in DOMAIN formats :
             IF formats[i].vcodec = Some("none") /\ formats[i].acodec = Some("none")
             THEN formats[i].format_id \notin Itags
             ELSE \E k \in DOMAIN streams : i \in group[k]
        /\ \A k \in DOMAIN streams : streams[k].itag \in group[k]

\* a record with no codec field and a video-only record were kept under pairs
\* of their own, and a record declaring both codecs "none" was dropped
C8_Witness ==
  /\ Fetched /\ Len(formats) = 3 /\ Len(streams) = 2
  /\ \E i, j, d \in DOMAIN formats :
        /\ formats[i].vcodec = None /\ formats[i].acodec = None /\ i \in Itags
        /\ formats[j].vcodec = Some("avc1") /\ formats[j].acodec = Some("none") /\ j \in Itags
        /\ formats[d].vcodec = Some("none") /\ formats[d].acodec = Some("none") /\ d \notin Itags

----------------------------------------------------------------------------
(* Properties of the front ends *)

Happened(e) == \E i \in DOMAIN events : events[i] = e
At(e) == CHOOSE i \in DOMAIN events : events[i] = e

Failures ==
  {"fetch_failed", "no_streams", "info_failed", "select_failed", "no_stream",
   "prepare_failed", "download_failed", "open_failed"}

\* C9: in both front ends a download is started only after fetch returned a
\* non-empty catalog and then selection returned a stream; the file is handed
\* over (completion reported) only after download returned normally; and a
\* submission in which fetch, selection or download failed ends with an error
\* message as its last output and no file handed over.
C9_FetchSelectDownloadDeliver ==
  /\ \A i, j \in DOMAIN events : events[i] = events[j] => i = j
  /\ Happened("select") => Happened("fetched") /\ At("fetched") < At("select")
  /\ Happened("download") =>
        /\ Happened("fetched") /\ Happened("selected")
        /\ At("fetch") < At("fetched") /\ At("fetched") < At("select")
        /\ At("select") < At("selected") /\ At("selected") < At("download")
        /\ streams # <<>> /\ chosen # None
        /\ \E i \in DOMAIN streams : chosen = Some(streams[i])
  /\ Happened("deliver") =>
        /\ Happened("downloaded") /\ At("download") < At("downloaded")
        /\ At("downloaded") < At("deliver")
        /\ \A i \in DOMAIN events : events[i] \notin Failures \cup {"error"}
  /\ (fpc = "done" /\ \E i \in DOMAIN events : events[i] \in Failures) =>
        /\ events[Len(events)] = "error"
        /\ ~Happened("deliver")
  /\ (fpc = "done" /\ Happened("fetch")) =>
        \/ Happened("deliver")
        \/ Happened("error")
        \/ (fe = "web" /\ ~Happened("select"))

\* a web submission whose download raised after fetch and selection succeeded
C9_Witness ==
  /\ fe = "web" /\ fpc = "done" /\ Len(streams) >= 2
  /\ events = <<"fetch", "fetched", "select", "selected", "download", "download_failed", "error">>

----------------------------------------------------------------------------
(* Properties of the cache *)

\* C10: no cache operation raises to its caller, a failed load leaves the
\* cache empty, and a get of a key set earlier on the object returns the value
\* last set, whether or not the save reached the disk.
C10_NeverRaises ==
  /\ raised = "none"
  /\ lastOp = "load_failed" => data = Dict(EmptyMap)
  /\ (lastOp = "get" /\ shadow[got.key] # None) => got.val = shadow[got.key]

----------------------------------------------------------------------------
(* Properties of download and _download_with_clients *)

\* the attempt ended with a DownloadError whose message contains "HTTP Error 403"
Forbidden(a) == a.outcome.kind = "DownloadError" /\ Contains(Http403, a.outcome.msg)

\* C11: the profiles are tried in the given order, web then android; every
\* attempt before the last ended with a DownloadError containing "HTTP Error
\* 403", so no profile is tried after a success or after any other error; the
\* call returns exactly when its last attempt succeeded; any other
\* DownloadError is raised at once; and when every profile failed the last
\* error is raised, so download and download_audio_only do not return normally.
C11_ClientRetry ==
  LET n == Len(attempts) IN
  /\ n <= Len(clientSets)
  /\ clientSets \in {<<>>, <<<<"web">>, <<"android">>>>}
  /\ \A i \in 1..n : attempts[i].player_client = clientSets[i]
  /\ \A i \in 1..(n - 1) : Forbidden(attempts[i])
  /\ dpc = "clients" => n < Len(clientSets) /\ dlRaised = None /\ dlResult = None
  /\ dpc = "returned" =>
       n >= 1 /\ attempts[n].outcome.kind = "ok" /\ dlRaised = None /\ dlResult # None
  /\ dpc = "raised" =>
       /\ n >= 1 /\ attempts[n].outcome.kind # "ok"
       /\ dlRaised = Some(attempts[n].outcome)
       /\ dlResult = None
  /\ (n >= 1 /\ dpc # "idle") =>
       CASE attempts[n].outcome.kind = "ok" -> dpc = "returned"
         [] Forbidden(attempts[n]) /\ n < Len(clientSets) -> dpc = "clients"
         [] OTHER -> dpc = "raised"

\* both profiles were refused with a 403, with different messages, after the
\* first attempt had already finished a file
C11_Witness ==
  /\ dpc = "raised" /\ Len(attempts) = 2
  /\ Forbidden(attempts[1]) /\ Forbidden(attempts[2])
  /\ attempts[1].outcome # attempts[2].outcome
  /\ dlRaised = Some(attempts[2].outcome)
  /\ collector # <<>>

----------------------------------------------------------------------------
(* Properties of the desktop GUI's Download clicks *)

\* threads that have made their selection
HasSelected == {w \in DOMAIN threads : threads[w].target # LEmpty}

\* C12: every worker thread selects from the catalog of the URL it was started
\* with, for the resolution the combobox showed at the moment of its click,
\* whatever the user edits afterwards and whatever other threads do.
C12_SelectsForClickTimeFields ==
  \A w \in HasSelected :
     /\ threads[w].streams = FetchStreamsOf(VideoFormats(threads[w].url))
     /\ threads[w].chosen = SelectStreamForResolution(threads[w].streams, threads[w].clickRes)

====
